---- MODULE Spec2Model ----
(***************************************************************************)
(* Model of github_project_exporter.py: the gh-CLI transport adapter, the  *)
(* cursor pagination loop, the item flattener and the orchestration in     *)
(* main().  Python strings on which the code computes (field names, title, *)
(* body, str(number)) are sequences of one-character strings; strings that *)
(* are only compared or copied (labels, url, cursors, messages) are atoms. *)
(***************************************************************************)
EXTENDS Integers, Sequences, FiniteSets, TLC

VARIABLES pc, authStatus, authCalls, queries, responses, results, all_items, cursor,
          items, csv_rows, file, stdout, stderr, exc, exitCode,
          f_items, f_rows, f_pc

\* pc          where main() is: "main", "export", "loop", "flatten", "open", "write",
\*             "completed", "except" (an exception reached main's handler), "exit", "done"
\* authStatus  what `gh auth status` did;  authCalls  how often it was run
\* queries     the cursor sent with each GraphQL query, in order
\* responses   what the gh process answered to each query (exit status, stdout)
\* results     what _make_graphql_request made of each response
\* all_items, cursor   the locals of get_all_project_items
\* items, csv_rows     the locals of export_to_csv
\* file        the output file: opened (and truncated) or not, and the rows in it
\* stdout, stderr      the lines written to the two streams
\* exc         the message of the exception caught by main, "" if none
\* exitCode    the process exit status, NoExit while it runs
\* f_items, f_rows, f_pc   argument, result and position of a direct call of
\*             process_items_to_csv_rows
vars == <<pc, authStatus, authCalls, queries, responses, results, all_items, cursor,
          items, csv_rows, file, stdout, stderr, exc, exitCode,
          f_items, f_rows, f_pc>>

mainVars == <<pc, authStatus, authCalls, queries, responses, results, all_items, cursor,
              items, csv_rows, file, stdout, stderr, exc, exitCode>>

flatVars == <<f_items, f_rows, f_pc>>

(* ---------------------------- bounds ----------------------------------- *)
\* pages the transport serves before the model stops following the loop
MaxPages == 3
\* items of an input sequence of the flattener
MaxItems == 3
\* field values of one item
MaxFields == 2

(* ---------------------------- strings ---------------------------------- *)
S_story_points == <<"s","t","o","r","y"," ","p","o","i","n","t","s">>
S_Story_Points == <<"S","t","o","r","y"," ","P","o","i","n","t","s">>
S_STORY_POINTS == <<"S","T","O","R","Y"," ","P","O","I","N","T","S">>
S_Estimate == <<"E","s","t","i","m","a","t","e">>

\* str.lower() on the characters that occur
LowerChar(c) ==
  CASE c = "S" -> "s" [] c = "T" -> "t" [] c = "O" -> "o" [] c = "R" -> "r"
    [] c = "Y" -> "y" [] c = "P" -> "p" [] c = "I" -> "i" [] c = "N" -> "n"
    [] c = "E" -> "e"
    [] OTHER -> c

Lower(s) == [i \in DOMAIN s |-> LowerChar(s[i])]

Digit(d) ==
  CASE d = 0 -> "0" [] d = 1 -> "1" [] d = 2 -> "2" [] d = 3 -> "3"
    [] d = 4 -> "4" [] d = 5 -> "5" [] d = 6 -> "6" [] d = 7 -> "7"
    [] d = 8 -> "8" [] d = 9 -> "9"

RECURSIVE NatToStr(_)
NatToStr(n) == IF n < 10 THEN <<Digit(n)>>
               ELSE NatToStr(n \div 10) \o <<Digit(n % 10)>>

\* str() of an int
IntToStr(n) == IF n < 0 THEN <<"-">> \o NatToStr(0 - n) ELSE NatToStr(n)

\* body.replace('\n', ' ').replace('\r', ' ')
CleanBody(body) ==
  [i \in DOMAIN body |-> IF body[i] = "\n" \/ body[i] = "\r" THEN " " ELSE body[i]]

(* ------------------------- optional values ----------------------------- *)
\* a dict key that is absent is <<>>, a present value v is <<v>>
Absent == <<>>
Some(v) == <<v>>
IsPresent(o) == Len(o) > 0
Get(o, default) == IF IsPresent(o) THEN o[1] ELSE default

(* ------------------------------ items ---------------------------------- *)
\* a node of items.nodes that is JSON null
NullItem == [isNone |-> TRUE]

\* "content" key missing or null
NoContent == [kind |-> "none"]
\* "content": {} -- what the query's Issue/PullRequest fragments leave of a draft issue
EmptyContent == [kind |-> "empty"]

FullContent(number, title, body, url, labels) ==
  [kind |-> "full", number |-> number, title |-> title, body |-> body,
   url |-> url, labels |-> labels]

Item(id, fieldValues, content) ==
  [isNone |-> FALSE, id |-> id, fieldValues |-> fieldValues, content |-> content]

\* a fieldValues node: "field" -> {"name": ...}, "number", "text", each optional
FieldValue(name, number, text) == [field |-> name, number |-> number, text |-> text]

\* Python truthiness of item.get("content")
Truthy(content) == content.kind = "full"

(* ---------------------------- flattener -------------------------------- *)
\* the value left in story_points by the match statement for one field value
FieldStoryPoints(field_value) ==
  IF IsPresent(field_value.number) THEN IntToStr(field_value.number[1])
  ELSE IF IsPresent(field_value.text) THEN field_value.text[1]
  ELSE <<>>

\* case "story points" of match field_name.lower()
NameMatches(field_value) == Lower(Get(field_value.field, <<>>)) = S_story_points

\* the loop with the break moved under the two value tests
RECURSIVE StoryPoints_BreakOnValue(_)
StoryPoints_BreakOnValue(field_values) ==
  IF field_values = <<>> THEN <<>>
  ELSE IF NameMatches(Head(field_values))
          /\ (IsPresent(Head(field_values).number) \/ IsPresent(Head(field_values).text))
       THEN FieldStoryPoints(Head(field_values))
  ELSE StoryPoints_BreakOnValue(Tail(field_values))

\* the for loop over field_values with its break
RECURSIVE StoryPoints(_)
StoryPoints(field_values) ==
  IF field_values = <<>> THEN <<>>
  ELSE IF NameMatches(Head(field_values)) THEN FieldStoryPoints(Head(field_values))
  ELSE StoryPoints(Tail(field_values))

\* f"[{story_points}] {title}" if story_points else title
FormattedTitle(story_points, title) ==
  IF story_points # <<>> THEN <<"[">> \o story_points \o <<"]", " ">> \o title
  ELSE title

SeqToSet(s) == {s[i] : i \in DOMAIN s}

IssueType(labels) == IF "Epic" \in SeqToSet(labels) THEN "Epic" ELSE "Story"

\* one csv_row of an item whose content is truthy
CsvRow(item) ==
  <<IssueType(item.content.labels),
    FormattedTitle(StoryPoints(item.fieldValues), item.content.title),
    IntToStr(item.content.number),
    item.content.url,
    CleanBody(Get(item.content.body, <<>>)),
    "">>

\* the loop body's decision: continue on falsy content, else append the row
RowsOfItem(item) == IF ~Truthy(item.content) THEN <<>> ELSE <<CsvRow(item)>>

\* rows inserted at the front instead of appended
RECURSIVE RowsOf_Prepend(_)
RowsOf_Prepend(its) ==
  IF its = <<>> THEN <<>> ELSE RowsOf_Prepend(Tail(its)) \o RowsOfItem(Head(its))

RECURSIVE RowsOf(_)
RowsOf(its) == IF its = <<>> THEN <<>> ELSE RowsOfItem(Head(its)) \o RowsOf(Tail(its))

\* item.get on None raises AttributeError; otherwise the rows are returned
ProcessItemsToCsvRows(its) ==
  IF \E i \in DOMAIN its : its[i].isNone
  THEN [raised |-> TRUE, rows |-> <<>>]
  ELSE [raised |-> FALSE, rows |-> RowsOf(its)]

(* ------------------------ transport responses -------------------------- *)
\* stdout of `gh api graphql`: not JSON, JSON that is no object, or an object
NotJson == [kind |-> "notjson"]
NonObject == [kind |-> "nonobject"]
Object(hasErrors, data) == [kind |-> "object", hasErrors |-> hasErrors, data |-> data]

\* the value under "data": the items connection of the project, or something else
BadData == [shape |-> "bad"]
Page(nodes, hasNextPage, endCursor) ==
  [shape |-> "ok", nodes |-> nodes, hasNextPage |-> hasNextPage, endCursor |-> endCursor]
NoValue == [shape |-> "none"]

Response(exit, out) == [exit |-> exit, out |-> out]

\* cursor = None
NoCursor == "null"
EndCursors == {"Y3Vyc29yOjE", "Y3Vyc29yOjI"}

ItemA == Item("A", <<FieldValue(Some(S_Story_Points), Some(5), Absent)>>,
              FullContent(7, <<"f","i","x">>, Some(<<"a","\n","b">>), "u7", <<"Epic">>))
ItemB == Item("B", <<>>, FullContent(12, <<"a","d","d">>, Absent, "u12", <<>>))
Draft == Item("D", <<>>, EmptyContent)

NodeLists == {<<>>, <<ItemA>>, <<ItemB, ItemA>>, <<Draft, ItemB>>, <<ItemA, NullItem>>}

Pages == {Page(n, h, c) : n \in NodeLists, h \in BOOLEAN, c \in EndCursors}

Responses ==
  {Response(1, NotJson), Response(1, Object(FALSE, Some(Page(<<ItemA>>, FALSE, "Y3Vyc29yOjE")))),
   Response(0, NotJson), Response(0, NonObject),
   Response(0, Object(TRUE, Absent)),
   Response(0, Object(TRUE, Some(Page(<<ItemB>>, FALSE, "Y3Vyc29yOjE")))),
   Response(0, Object(FALSE, Absent)),
   Response(0, Object(FALSE, Some(BadData)))}
  \cup {Response(0, Object(FALSE, Some(p))) : p \in Pages}

(* -------------------------- transport adapter -------------------------- *)
GhNotFound == "GitHub CLI not found. Please install it: brew install gh / sudo apt install gh / winget install GitHub.cli"
GhNotAuthenticated == "GitHub CLI not authenticated. Please run: gh auth login"

Raise(msg) == [raised |-> TRUE, msg |-> msg, value |-> NoValue]
Return(v) == [raised |-> FALSE, msg |-> "", value |-> v]

\* the auth check without check=True: a non-zero exit goes unnoticed
VerifyGhAuth_NoCheck(status) ==
  CASE status = "missing" -> Raise(GhNotFound)
    [] status = "unauthenticated" -> Return(NoValue)
    [] status = "ok" -> Return(NoValue)

\* `gh auth status` with check=True: the tool is missing, exits non-zero, or exits 0
VerifyGhAuth(status) ==
  CASE status = "missing" -> Raise(GhNotFound)
    [] status = "unauthenticated" -> Raise(GhNotAuthenticated)
    [] status = "ok" -> Return(NoValue)

\* the request without check=True: the output is parsed whatever the exit status
MakeGraphqlRequest_NoCheck(resp) ==
  IF resp.out.kind = "notjson" THEN Raise("Failed to parse GraphQL response")
  ELSE IF resp.out.kind = "nonobject" THEN Raise("TypeError")
  ELSE IF resp.out.hasErrors THEN Raise("GraphQL errors")
  ELSE IF ~IsPresent(resp.out.data) THEN Raise("KeyError")
  ELSE Return(resp.out.data[1])

\* the request returning data when there is some, and testing errors only after
MakeGraphqlRequest_DataFirst(resp) ==
  IF resp.exit # 0 THEN Raise("gh CLI request failed")
  ELSE IF resp.out.kind = "notjson" THEN Raise("Failed to parse GraphQL response")
  ELSE IF resp.out.kind = "nonobject" THEN Raise("TypeError")
  ELSE IF IsPresent(resp.out.data) THEN Return(resp.out.data[1])
  ELSE IF resp.out.hasErrors THEN Raise("GraphQL errors")
  ELSE Raise("KeyError")

\* subprocess.run(check=True), json.loads, the "errors" test, data["data"]
MakeGraphqlRequest(resp) ==
  IF resp.exit # 0 THEN Raise("gh CLI request failed")
  ELSE IF resp.out.kind = "notjson" THEN Raise("Failed to parse GraphQL response")
  ELSE IF resp.out.kind = "nonobject" THEN Raise("TypeError")
  ELSE IF resp.out.hasErrors THEN Raise("GraphQL errors")
  ELSE IF ~IsPresent(resp.out.data) THEN Raise("KeyError")
  ELSE Return(resp.out.data[1])

(* ------------------------------ paginator ------------------------------ *)
\* project_data = data["organization"]["projectV2"]["items"]
ProjectData(data) == IF data.shape = "ok" THEN Return(data) ELSE Raise("TypeError")

\* a loop that stops after every page
HasNextPage_Never(project_data) == FALSE

\* project_data["pageInfo"]["hasNextPage"]
HasNextPage(project_data) == project_data.hasNextPage

\* a cursor that is never advanced
NextCursor_Stale(project_data) == NoCursor

\* cursor = project_data["pageInfo"]["endCursor"]
NextCursor(project_data) == project_data.endCursor

(* ------------------------------- output -------------------------------- *)
NoExit == -1

\* an except clause that prints and falls through
MainExitCode_Zero(failed) == 0

\* the status main() ends the process with
MainExitCode(failed) == IF failed THEN 1 ELSE 0

\* a writer that drops the first row
WrittenRows_SkipFirst(rows, k) == SubSeq(rows, 2, k)

\* the rows in the file once writerows has written k of them
WrittenRows(rows, k) == SubSeq(rows, 1, k)

Info(text) == <<"info", text>>
ErrorLine(e) == <<"Error", e>>

(* ----------------------------- the program ----------------------------- *)
Init ==
  /\ pc = "main"
  /\ authStatus = "unknown"
  /\ authCalls = 0
  /\ queries = <<>>
  /\ responses = <<>>
  /\ results = <<>>
  /\ all_items = <<>>
  /\ cursor = NoCursor
  /\ items = <<>>
  /\ csv_rows = <<>>
  /\ file = [opened |-> FALSE, rows |-> <<>>]
  /\ stdout = <<>>
  /\ stderr = <<>>
  /\ exc = ""
  /\ exitCode = NoExit
  /\ f_items = <<>>
  /\ f_rows = <<>>
  /\ f_pc = "idle"

\* exporter = GitHubProjectExporter(): __init__ runs _verify_gh_auth
Construct ==
  /\ pc = "main"
  /\ \E status \in {"ok", "missing", "unauthenticated"} :
       LET r == VerifyGhAuth(status) IN
       /\ authStatus' = status
       /\ authCalls' = authCalls + 1
       /\ IF r.raised
          THEN /\ exc' = r.msg
               /\ pc' = "except"
               /\ stdout' = stdout
          ELSE /\ stdout' = Append(stdout, Info("Using GitHub CLI authentication"))
               /\ pc' = "export"
               /\ exc' = exc
  /\ UNCHANGED <<queries, responses, results, all_items, cursor, items, csv_rows,
                 file, stderr, exitCode, flatVars>>

\* export_to_csv up to the first iteration of get_all_project_items
ExportStart ==
  /\ pc = "export"
  /\ stdout' = Append(stdout, Info("Fetching project data"))
  /\ all_items' = <<>>
  /\ cursor' = NoCursor
  /\ pc' = "loop"
  /\ UNCHANGED <<authStatus, authCalls, queries, responses, results, items, csv_rows,
                 file, stderr, exc, exitCode, flatVars>>

\* one iteration of the while True loop of get_all_project_items
FetchPage ==
  /\ pc = "loop"
  /\ Len(queries) < MaxPages
  /\ \E resp \in Responses :
       LET r == MakeGraphqlRequest(resp)
           pd == IF r.raised THEN r ELSE ProjectData(r.value)
       IN
       /\ queries' = Append(queries, cursor)
       /\ responses' = Append(responses, resp)
       /\ results' = Append(results, r)
       /\ IF pd.raised
          THEN /\ exc' = pd.msg
               /\ pc' = "except"
               /\ UNCHANGED <<all_items, cursor, items>>
          ELSE /\ all_items' = all_items \o pd.value.nodes
               /\ exc' = exc
               /\ IF ~HasNextPage(pd.value)
                  THEN /\ pc' = "flatten"
                       /\ items' = all_items'
                       /\ cursor' = cursor
                  ELSE /\ pc' = "loop"
                       /\ cursor' = NextCursor(pd.value)
                       /\ items' = items
  /\ UNCHANGED <<authStatus, authCalls, csv_rows, file, stdout, stderr, exitCode, flatVars>>

\* export_to_csv after get_all_project_items returned: process_items_to_csv_rows
Flatten ==
  /\ pc = "flatten"
  /\ LET r == ProcessItemsToCsvRows(items) IN
     IF r.raised
     THEN /\ exc' = "AttributeError"
          /\ pc' = "except"
          /\ stdout' = Append(stdout, Info("Found items"))
          /\ csv_rows' = csv_rows
     ELSE /\ csv_rows' = r.rows
          /\ stdout' = stdout \o <<Info("Found items"), Info("Processed issues/PRs")>>
          /\ pc' = "open"
          /\ exc' = exc
  /\ UNCHANGED <<authStatus, authCalls, queries, responses, results, all_items, cursor,
                 items, file, stderr, exitCode, flatVars>>

\* open(output_file, 'w'): fails leaving the file alone, or truncates it
OpenFile ==
  /\ pc = "open"
  /\ \E ok \in BOOLEAN :
       IF ok
       THEN /\ file' = [opened |-> TRUE, rows |-> <<>>]
            /\ pc' = "write"
            /\ exc' = exc
       ELSE /\ exc' = "OSError"
            /\ pc' = "except"
            /\ file' = file
  /\ UNCHANGED <<authStatus, authCalls, queries, responses, results, all_items, cursor,
                 items, csv_rows, stdout, stderr, exitCode, flatVars>>

\* writer.writerows(csv_rows) and the end of the with block: all rows are
\* written, or an error is raised after k of them and the file is closed
WriteRows ==
  /\ pc = "write"
  /\ \/ /\ file' = [file EXCEPT !.rows = WrittenRows(csv_rows, Len(csv_rows))]
        /\ stdout' = Append(stdout, Info("Exported"))
        /\ pc' = "completed"
        /\ exc' = exc
     \/ \E k \in 0..Len(csv_rows) :
          /\ file' = [file EXCEPT !.rows = WrittenRows(csv_rows, k)]
          /\ exc' = "OSError"
          /\ pc' = "except"
          /\ stdout' = stdout
  /\ UNCHANGED <<authStatus, authCalls, queries, responses, results, all_items, cursor,
                 items, csv_rows, stderr, exitCode, flatVars>>

\* main() after export_to_csv returned: the last print, then the normal exit
MainReturn ==
  /\ pc = "completed"
  /\ stdout' = Append(stdout, Info("Export completed successfully!"))
  /\ exitCode' = MainExitCode(FALSE)
  /\ pc' = "done"
  /\ UNCHANGED <<authStatus, authCalls, queries, responses, results, all_items, cursor,
                 items, csv_rows, file, stderr, exc, flatVars>>

\* except Exception as e: print(f"Error: {e}") -- print writes to sys.stdout
PrintError ==
  /\ pc = "except"
  /\ stdout' = Append(stdout, ErrorLine(exc))
  /\ pc' = "exit"
  /\ UNCHANGED <<authStatus, authCalls, queries, responses, results, all_items, cursor,
                 items, csv_rows, file, stderr, exc, exitCode, flatVars>>

\* sys.exit(1)
SysExit ==
  /\ pc = "exit"
  /\ exitCode' = MainExitCode(TRUE)
  /\ pc' = "done"
  /\ UNCHANGED <<authStatus, authCalls, queries, responses, results, all_items, cursor,
                 items, csv_rows, file, stdout, stderr, exc, flatVars>>

Next ==
  \/ Construct
  \/ ExportStart
  \/ FetchPage
  \/ Flatten
  \/ OpenFile
  \/ WriteRows
  \/ MainReturn
  \/ PrintError
  \/ SysExit

Spec == Init /\ [][Next]_vars

(* ----------------- the flattener as a function of its input ------------ *)
ItemC == Item("C", <<FieldValue(Some(S_STORY_POINTS), Absent, Some(<<"8">>))>>,
              FullContent(30, <<"d","o","c">>, Some(<<"x","\r","\n","y">>), "u30", <<"epic", "bug">>))
ItemN == Item("N", <<FieldValue(Some(S_Story_Points), Some(5), Absent)>>, NoContent)

FlatItems == {ItemA, ItemB, ItemC, Draft, ItemN}

FieldValueSet ==
  {FieldValue(Some(S_Story_Points), Some(5), Absent),
   FieldValue(Some(S_STORY_POINTS), Absent, Some(<<"8">>)),
   FieldValue(Some(S_story_points), Absent, Absent),
   FieldValue(Some(S_Story_Points), Absent, Some(<<>>)),
   FieldValue(Some(S_story_points), Some(0), Absent),
   FieldValue(Some(S_Estimate), Some(13), Absent),
   FieldValue(Absent, Absent, Absent)}

SeqsUpTo(S, n) == UNION {[1..k -> S] : k \in 0..n}

TitleContents ==
  {FullContent(7, <<"f","i","x">>, Absent, "u7", <<>>),
   FullContent(12, <<>>, Some(<<"b">>), "u12", <<"Epic">>)}

FlatInputs ==
  SeqsUpTo(FlatItems, MaxItems)
  \cup {<<Item("X", fvs, c)>> : fvs \in SeqsUpTo(FieldValueSet, MaxFields), c \in TitleContents}

InitFlat ==
  /\ pc = "main"
  /\ authStatus = "unknown"
  /\ authCalls = 0
  /\ queries = <<>>
  /\ responses = <<>>
  /\ results = <<>>
  /\ all_items = <<>>
  /\ cursor = NoCursor
  /\ items = <<>>
  /\ csv_rows = <<>>
  /\ file = [opened |-> FALSE, rows |-> <<>>]
  /\ stdout = <<>>
  /\ stderr = <<>>
  /\ exc = ""
  /\ exitCode = NoExit
  /\ f_items \in FlatInputs
  /\ f_rows = <<>>
  /\ f_pc = "call"

\* csv_rows = self.process_items_to_csv_rows(items) on dict items
FlattenCall ==
  /\ f_pc = "call"
  /\ f_rows' = ProcessItemsToCsvRows(f_items).rows
  /\ f_pc' = "returned"
  /\ UNCHANGED <<f_items, mainVars>>

NextFlat == FlattenCall

SpecFlat == InitFlat /\ [][NextFlat]_vars

(* ======================= properties of the program ===================== *)
\* a response that answers a page successfully
GoodPage(resp) ==
  /\ resp.exit = 0
  /\ resp.out.kind = "object"
  /\ ~resp.out.hasErrors
  /\ IsPresent(resp.out.data)
  /\ resp.out.data[1].shape = "ok"

PageOf(resp) == resp.out.data[1]

RECURSIVE ConcatNodes(_)
ConcatNodes(rs) ==
  IF rs = <<>> THEN <<>> ELSE PageOf(Head(rs)).nodes \o ConcatNodes(Tail(rs))

\* k >= 1 successful pages, hasNextPage true on pages 1..k-1 and false on page k
KPagesAnswered ==
  /\ Len(responses) >= 1
  /\ \A i \in DOMAIN responses :
       /\ GoodPage(responses[i])
       /\ PageOf(responses[i]).hasNextPage = (i < Len(responses))

\* C1: when the transport answered k >= 1 pages successfully, hasNextPage true
\* on all but the last, get_all_project_items has returned the concatenation of
\* the pages' nodes in order and issued exactly k queries, the first with the
\* null cursor and the i-th with the endCursor of page i-1.
C1_Pagination ==
  KPagesAnswered =>
    /\ pc # "loop"
    /\ items = ConcatNodes(responses)
    /\ Len(queries) = Len(responses)
    /\ queries[1] = NoCursor
    /\ \A i \in 2..Len(queries) : queries[i] = PageOf(responses[i - 1]).endCursor

C1_Witness ==
  /\ KPagesAnswered
  /\ Len(responses) = 3
  /\ queries[2] # queries[3]
  /\ Len(items) >= 4
  /\ items[1] # items[2]
  /\ pc = "done"

SomeQueryFailed == \E i \in DOMAIN responses : ~GoodPage(responses[i])

\* C2: once the query of any page has failed, the output file is never opened
\* or truncated, no rows are produced, and the process exits with code 1.
C2_FailedPageNoFile ==
  SomeQueryFailed =>
    /\ pc \in {"except", "exit", "done"}
    /\ ~file.opened
    /\ file.rows = <<>>
    /\ csv_rows = <<>>
    /\ pc = "done" => exitCode = 1

C2_Witness ==
  /\ Len(responses) = 2
  /\ GoodPage(responses[1])
  /\ PageOf(responses[1]).nodes # <<>>
  /\ responses[2].exit # 0
  /\ pc = "done"

Emitted == SeqToSet(stdout) \cup SeqToSet(stderr)

\* C3: the authentication check runs exactly once, before the first query;
\* when it fails no query is issued, no file is written and the process exits
\* non-zero after the remediation message was emitted.
C3_AuthOnceFirst ==
  /\ authCalls = (IF pc = "main" THEN 0 ELSE 1)
  /\ queries # <<>> => authStatus = "ok"
  /\ authStatus \in {"missing", "unauthenticated"} =>
       /\ queries = <<>>
       /\ ~file.opened
       /\ pc \in {"except", "exit", "done"}
       /\ exc = (IF authStatus = "missing" THEN GhNotFound ELSE GhNotAuthenticated)
       /\ pc = "done" => exitCode \notin {0, NoExit}
       /\ exitCode # NoExit => ErrorLine(exc) \in Emitted

C3_Witness ==
  /\ authStatus = "missing"
  /\ pc = "done"
  /\ ErrorLine(GhNotFound) \in Emitted

CarriesErrors(out) == out.kind = "object" /\ out.hasErrors
CarriesData(out) == out.kind = "object" /\ IsPresent(out.data)

\* a failed call is the last call, and every call got one response
NoRetry ==
  /\ Len(results) = Len(responses)
  /\ Len(queries) = Len(responses)
  /\ \A i \in DOMAIN results : results[i].raised => i = Len(results) /\ pc # "loop"

\* C4 as stated: every call ends in one of four outcomes, by precedence
\* non-zero exit, invalid JSON, an errors field, else the data field returned.
C4_FourOutcomes ==
  /\ NoRetry
  /\ \A i \in DOMAIN results :
       LET resp == responses[i]
           r == results[i]
       IN IF resp.exit # 0 THEN r = Raise("gh CLI request failed")
          ELSE IF resp.out.kind = "notjson" THEN r = Raise("Failed to parse GraphQL response")
          ELSE IF CarriesErrors(resp.out) THEN r = Raise("GraphQL errors")
          ELSE CarriesData(resp.out) /\ r = Return(resp.out.data[1])

\* C4 amended: the same precedence, with a fifth outcome after the errors test:
\* parsed JSON that is no object fails with a TypeError and an object without
\* a data field fails with a KeyError; no retry, no value on any failure.
C4_Outcomes ==
  /\ NoRetry
  /\ \A i \in DOMAIN results :
       LET resp == responses[i]
           r == results[i]
       IN /\ r.raised => r.value = NoValue
          /\ IF resp.exit # 0 THEN r = Raise("gh CLI request failed")
             ELSE IF resp.out.kind = "notjson" THEN r = Raise("Failed to parse GraphQL response")
             ELSE IF CarriesErrors(resp.out) THEN r = Raise("GraphQL errors")
             ELSE IF resp.out.kind # "object" THEN r = Raise("TypeError")
             ELSE IF ~CarriesData(resp.out) THEN r = Raise("KeyError")
             ELSE r = Return(resp.out.data[1])

C4_Witness ==
  /\ Len(results) = 2
  /\ ~results[1].raised
  /\ CarriesErrors(responses[2].out)
  /\ CarriesData(responses[2].out)
  /\ results[2].raised
  /\ pc = "done"

NoNullItem == \A i \in DOMAIN all_items : ~all_items[i].isNone

\* C5: the exit code is 0 exactly when the authentication check, every page
\* fetch, the flattening and the file write all succeeded, and 1 in every
\* other terminated run; there is no exit code before the process has ended.
C5_ExitCode ==
  /\ pc # "done" => exitCode = NoExit
  /\ pc = "done" =>
       /\ exitCode \in {0, 1}
       /\ exitCode = 0 <=> exc = ""
       /\ exitCode = 0 =>
            /\ authStatus = "ok"
            /\ KPagesAnswered
            /\ NoNullItem
            /\ file.opened
            /\ file.rows = csv_rows
            /\ Info("Exported") \in SeqToSet(stdout)
       /\ authStatus # "ok" => exitCode = 1
       /\ SomeQueryFailed => exitCode = 1
       /\ ~NoNullItem => exitCode = 1
       /\ ~file.opened => exitCode = 1
       /\ file.rows # csv_rows => exitCode = 1

C5_Witness ==
  /\ pc = "done"
  /\ exitCode = 1
  /\ file.opened
  /\ Len(file.rows) < Len(csv_rows)

C5_WitnessSuccess ==
  /\ pc = "done"
  /\ exitCode = 0
  /\ Len(file.rows) = 3

ErrorLines(stream) == {i \in DOMAIN stream : stream[i][1] = "Error"}

\* C6 as stated: a failing run has emitted exactly one Error line, on the
\* error stream and not on standard output, before it exits.
C6_ErrorToStderr ==
  exitCode = 1 =>
    /\ Cardinality(ErrorLines(stderr)) = 1
    /\ ErrorLines(stdout) = {}

IsPrefix(s, t) == Len(s) <= Len(t) /\ s = SubSeq(t, 1, Len(s))

\* C7 as stated: in every terminated run the file holds the complete rows of
\* all fetched items or has not been written at all.
C7_CompleteOrNone ==
  pc = "done" =>
    \/ ~file.opened
    \/ file.rows = RowsOf(all_items) /\ Len(responses) > 0

\* C7 amended: the file is untouched, or complete, or -- only when the write
\* itself failed after the file was opened -- holds a prefix of the rows, and
\* then the exit code is 1; a successful run leaves the complete file.
C7_CompleteNoneOrFailedWrite ==
  /\ ~file.opened => file.rows = <<>>
  /\ pc = "done" =>
       /\ \/ ~file.opened
          \/ file.rows = RowsOf(all_items) /\ Len(responses) > 0
          \/ /\ exc = "OSError"
             /\ exitCode = 1
             /\ IsPrefix(file.rows, RowsOf(all_items))
       /\ exitCode = 0 => file.opened /\ file.rows = RowsOf(all_items)
       /\ exc \notin {"", "OSError"} => ~file.opened

C7_Witness ==
  /\ pc = "done"
  /\ file.opened
  /\ Len(RowsOf(all_items)) = 3
  /\ Len(file.rows) = 1
  /\ exitCode = 1

AllHaveNext ==
  /\ Len(responses) >= 1
  /\ \A i \in DOMAIN responses : GoodPage(responses[i]) /\ PageOf(responses[i]).hasNextPage

\* C10: the loop ends only on a successful page with hasNextPage false or on a
\* failed query and fetches nothing after it; while every page so far succeeded
\* with hasNextPage true it is still looping, however many pages were fetched,
\* and the file is untouched.
C10_NoCap ==
  /\ \A i \in DOMAIN responses :
       i < Len(responses) => GoodPage(responses[i]) /\ PageOf(responses[i]).hasNextPage
  /\ pc \in {"flatten", "open", "write", "completed"} =>
       GoodPage(responses[Len(responses)]) /\ ~PageOf(responses[Len(responses)]).hasNextPage
  /\ AllHaveNext =>
       /\ pc = "loop"
       /\ Len(queries) = Len(responses)
       /\ ~file.opened
       /\ exitCode = NoExit
       /\ Len(queries) < MaxPages => ENABLED FetchPage

C10_Witness ==
  /\ AllHaveNext
  /\ Len(queries) = MaxPages
  /\ pc = "loop"

(* ====================== properties of the flattener ==================== *)
HasContent(item) == item.content.kind = "full"

\* the items that have content, in input order
ContentItems == SelectSeq(f_items, HasContent)

\* the spellings of "story points" that differ in case only
StoryPointsSpellings == {S_story_points, S_Story_Points, S_STORY_POINTS}

NamedStoryPoints(fv) == IsPresent(fv.field) /\ fv.field[1] \in StoryPointsSpellings

\* a numeric value, or a text value that is not empty
CarriesValue(fv) == IsPresent(fv.number) \/ (IsPresent(fv.text) /\ fv.text[1] # <<>>)

ValueText(fv) == IF IsPresent(fv.number) THEN IntToStr(fv.number[1]) ELSE fv.text[1]

Prefixed(sp, title) == <<"[">> \o sp \o <<"]", " ">> \o title

Min(S) == CHOOSE x \in S : \A y \in S : x <= y

\* C8 as stated: the Title is "[<sp>] <title>" iff some field named "story
\* points" (any case) carries a value, <sp> being the value of the first such
\* field; a matching field without a value does not suppress the prefix.
C8_FirstValuedMatch ==
  f_pc = "returned" =>
    \A j \in DOMAIN f_rows :
      LET item == ContentItems[j]
          fvs == item.fieldValues
          valued == {i \in DOMAIN fvs : NamedStoryPoints(fvs[i]) /\ CarriesValue(fvs[i])}
      IN f_rows[j][2] = (IF valued # {}
                         THEN Prefixed(ValueText(fvs[Min(valued)]), item.content.title)
                         ELSE item.content.title)

\* C8 amended: the first field named "story points" (any case) decides alone:
\* the Title is "[<sp>] <title>" iff that field carries a numeric value or a
\* non-empty text, <sp> being its value; otherwise, and when no field has the
\* name, the Title is the title unchanged.
C8_FirstNamedMatch ==
  f_pc = "returned" =>
    \A j \in DOMAIN f_rows :
      LET item == ContentItems[j]
          fvs == item.fieldValues
          named == {i \in DOMAIN fvs : NamedStoryPoints(fvs[i])}
      IN f_rows[j][2] = (IF named # {} /\ CarriesValue(fvs[Min(named)])
                         THEN Prefixed(ValueText(fvs[Min(named)]), item.content.title)
                         ELSE item.content.title)

C8_Witness ==
  /\ f_pc = "returned"
  /\ Len(f_items) = 1
  /\ Len(f_items[1].fieldValues) = 2
  /\ NamedStoryPoints(f_items[1].fieldValues[1])
  /\ ~CarriesValue(f_items[1].fieldValues[1])
  /\ f_items[1].fieldValues[2] = FieldValue(Some(S_Story_Points), Some(5), Absent)
  /\ f_rows[1][2] = <<"f","i","x">>

C8_WitnessPrefixed ==
  /\ f_pc = "returned"
  /\ Len(f_items) = 1
  /\ f_items[1].fieldValues =
       <<FieldValue(Some(S_Estimate), Some(13), Absent),
         FieldValue(Some(S_STORY_POINTS), Absent, Some(<<"8">>))>>
  /\ f_rows[1][2] = <<"[","8","]"," ","f","i","x">>

\* C9: the rows are one per item with content, none for an item without, in
\* input order: the i-th row is made from the i-th item that has content.
C9_RowsFollowItems ==
  f_pc = "returned" =>
    /\ Len(f_rows) = Len(f_items) - Cardinality({i \in DOMAIN f_items : ~HasContent(f_items[i])})
    /\ Len(f_rows) = Len(ContentItems)
    /\ \A j \in DOMAIN f_rows :
         /\ Len(f_rows[j]) = 6
         /\ f_rows[j][3] = IntToStr(ContentItems[j].content.number)
         /\ f_rows[j][4] = ContentItems[j].content.url

C9_Witness ==
  /\ f_pc = "returned"
  /\ f_items = <<ItemC, Draft, ItemA>>
  /\ Len(f_rows) = 2
  /\ f_rows[1][3] = <<"3","0">>
  /\ f_rows[2][3] = <<"7">>

====
